---- MODULE Spec2Model ----
(***************************************************************************)
(* Linked linear containers of jpleyjon/all-in-one: Stack, Queue and List  *)
(* over SingleNode chains.  One container is constructed and then driven   *)
(* through its public operations.  The heap of SingleNode objects is the   *)
(* pair of functions next/data over the node identities still referenced   *)
(* from the container (head, tail); unreferenced nodes are collected.      *)
(* Further specifications drive generators (SpecIter), returned arrays     *)
(* (SpecArr), the nodes handed out by the head and tail getters            *)
(* (SpecCaller, SpecErrors), two containers in one heap (SpecTwo) and the  *)
(* comparison methods of Node on two nodes by themselves (SpecCompare).    *)
(***************************************************************************)
EXTENDS Integers, Sequences, FiniteSets, TLC

(* ------------------------------ bounds -------------------------------- *)
\* insertions are offered only while the cached size is below MaxSize
MaxSize == 3
\* ... and while fewer than MaxNodes nodes are referenced from the container
MaxNodes == 4
\* ... and, where generators or returned arrays are in play, only while it
\* is below MaxIterSize
MaxIterSize == 2
\* numbers, strings and Comparable objects compared by nodes have keys
\* 0..MaxKey
MaxKey == 1

(* ------------------------------ values -------------------------------- *)
\* A JavaScript value is <<typeof-kind, payload>>.
UNDEF == <<"undefined", 0>>
NULLV == <<"null", 0>>
N0 == <<"number", 0>>
N1 == <<"number", 1>>
FALSE_V == <<"boolean", 0>>
EMPTY_S == <<"string", 0>>
\* NaN: a number, falsy, that no comparison holds of
NAN == <<"number", 0, "NaN">>
IsNaN(v) == v = NAN

\* values a caller passes to the constructors
Values == {UNDEF, NULLV, N0, N1, FALSE_V, EMPTY_S}
\* values a caller passes to push / prepend / insert / removeData
Data == {NULLV, N0, N1}

\* the absent values
Absent == {NULLV, UNDEF}
\* values a caller passes to push / prepend / insert
Inserted == Data \cup Absent

\* JavaScript truthiness, as tested by `if (data)`
Truthy(v) ==
  /\ v[1] \notin {"undefined", "null"}
  /\ ~(v[1] \in {"number", "boolean", "string"} /\ v[2] = 0)

\* a constructor that rejects undefined only
NodeRejects_Lenient(d) == d = UNDEF

\* Node.constructor rejects null and undefined
NodeRejects(d) == d = NULLV \/ d = UNDEF
NodeError == "Node data cannot be null or undefined"
\* message of the TypeError raised by a property access on null
NullError == "Cannot read properties of null"

(* ------------------------------- state -------------------------------- *)
NULL == 0
\* outcome of a dereference of null during a chain walk
DEREF_NULL == -1

VARIABLES
  kind,    \* "none" before construction, else "Stack" | "Queue" | "List"
  head,    \* _head : node identity or NULL
  tail,    \* _tail : node identity or NULL (Queue and List)
  size,    \* _size : cached count
  next,    \* SingleNode._next of every live node
  data,    \* Node._data of every live node
  last,    \* the last call: operation, arguments, error raised, value returned
  hist,    \* Stack, Queue: values stored by the constructor and by push and
           \* not yet popped, oldest first
  iter,    \* the generator returned by [Symbol.iterator](): its position
           \* (pc) and its local `current`; with them, what toArray() was
           \* when it was obtained, less one value for each value yielded
           \* since (rest), and whether the container was mutated while it
           \* was running (dirty)
  arrays,  \* the arrays toArray() has returned to a caller that keeps them
           \* in two variables: the array identity each variable holds
           \* (ref) and the elements of each array (elems)
  other    \* the second container of a caller that has two: its kind and
           \* its _head, _tail, _size (and hist) while the caller operates
           \* on the first; its nodes live in next/data with the others

vars == <<kind, head, tail, size, next, data, last, hist, iter, arrays, other>>

Call(op, arg, idx, err, msg, val) ==
  [op |-> op, arg |-> arg, idx |-> idx, err |-> err, msg |-> msg, val |-> val]

Returned(op, arg, idx, val) == Call(op, arg, idx, "", "", val)
Thrown(op, arg, idx, err, msg) == Call(op, arg, idx, err, msg, UNDEF)

(* ------------------------------ the heap ------------------------------ *)
RECURSIVE Walk(_, _, _)
\* node identities visited from n by following nx until null
Walk(n, nx, seen) ==
  IF n = NULL \/ n \in seen THEN <<>>
  ELSE <<n>> \o Walk(nx[n], nx, seen \cup {n})

Range(s) == {s[i] : i \in 1..Len(s)}

\* a node of the second container taken for a new one
Fresh_OfOther ==
  IF other.head # NULL THEN other.head ELSE Cardinality(DOMAIN next) + 1

\* identity of a newly constructed node
Fresh == CHOOSE n \in 1..(Cardinality(DOMAIN next) + 1) : n \notin DOMAIN next

RECURSIVE Advance(_, _, _)
\* `current = current.next!` executed k times
Advance(cur, k, nx) ==
  IF k = 0 THEN cur
  ELSE IF cur = NULL THEN DEREF_NULL
  ELSE Advance(nx[cur], k - 1, nx)

\* the chain from head, as node identities
Chain == Walk(head, next, {})

\* the live nodes in chain order: those reached from h, then those reached
\* only from t, then those only a running generator (at node c) still holds
LiveOrder(h, t, c, nx) ==
  LET fromHead == Walk(h, nx, {})
      NotFromHead(n) == n \notin Range(fromHead)
      fromBoth == fromHead \o SelectSeq(Walk(t, nx, {}), NotFromHead)
      NotFromBoth(n) == n \notin Range(fromBoth)
  IN  fromBoth \o SelectSeq(Walk(c, nx, {}), NotFromBoth)

\* no generator
NoIterator == [pc |-> "none", current |-> NULL, rest |-> <<>>, dirty |-> FALSE]

\* a running generator sees the container mutated
Mutated(it) ==
  IF it.pc \in {"start", "yielded"} THEN [it EXCEPT !.dirty = TRUE] ELSE it

\* no second container
NoOther ==
  [kind |-> "none", head |-> NULL, tail |-> NULL, size |-> 0, hist |-> <<>>]

\* writes the fields of the container, of its nodes and of the generator; the
\* nodes no longer referenced are dropped and the live ones renumbered in
\* chain order, those of the second container after the others
StoreAll(h, t, s, nx, dt, it) ==
  LET own == LiveOrder(h, t, it.current, nx)
      NotOwn(n) == n \notin Range(own)
      order == own \o SelectSeq(LiveOrder(other.head, other.tail, NULL, nx),
                                NotOwn)
      pos(n) == IF n = NULL THEN NULL
                ELSE CHOOSE i \in 1..Len(order) : order[i] = n
  IN  /\ head' = pos(h)
      /\ tail' = pos(t)
      /\ size' = s
      /\ next' = [i \in 1..Len(order) |-> pos(nx[order[i]])]
      /\ data' = [i \in 1..Len(order) |-> dt[order[i]]]
      /\ iter' = [it EXCEPT !.current = pos(it.current)]
      /\ other' = [other EXCEPT !.head = pos(other.head),
                                !.tail = pos(other.tail)]
      /\ UNCHANGED arrays

\* a mutation of the container
Store(h, t, s, nx, dt) == StoreAll(h, t, s, nx, dt, Mutated(iter))

\* an insertion is offered
Room == size < MaxSize /\ Len(next) < MaxNodes

Unchanged == UNCHANGED <<head, tail, size, next, data, iter, arrays, other>>

(* ------------------------------- Stack -------------------------------- *)
Stack_toArray == [i \in 1..Len(Chain) |-> data[Chain[i]]]

Stack_isEmpty == head = NULL

Stack_constructor(d) ==
  /\ kind = "none"
  /\ IF d # UNDEF
     THEN IF NodeRejects(d)
          THEN /\ UNCHANGED <<kind, head, tail, size, next, data, hist, iter,
                            arrays, other>>
               /\ last' = Thrown("Stack", d, 0, "Error",
                                 NodeError)
          ELSE /\ kind' = "Stack"
               /\ Store(Fresh, NULL, 1,
                        (Fresh :> NULL) @@ next, (Fresh :> d) @@ data)
               /\ hist' = <<d>>
               /\ last' = Returned("Stack", d, 0, UNDEF)
     ELSE /\ kind' = "Stack"
          /\ Unchanged
          /\ hist' = <<>>
          /\ last' = Returned("Stack", d, 0, UNDEF)

RemoveLast(s) == IF s = <<>> THEN <<>> ELSE SubSeq(s, 1, Len(s) - 1)
RemoveFirst(s) == IF s = <<>> THEN <<>> ELSE Tail(s)

\* push that links the new node after the last one, as ALinearStructure.push
Stack_push_AtEnd(d) ==
  /\ kind = "Stack"
  /\ Room
  /\ IF NodeRejects(d)
     THEN /\ Unchanged
          /\ UNCHANGED hist
          /\ last' = Thrown("push", d, 0, "Error", NodeError)
     ELSE LET newHead == Fresh IN
          /\ IF head = NULL
             THEN Store(newHead, NULL, size + 1,
                        (newHead :> NULL) @@ next, (newHead :> d) @@ data)
             ELSE Store(head, NULL, size + 1,
                        (Chain[Len(Chain)] :> newHead) @@ (newHead :> NULL) @@ next,
                        (newHead :> d) @@ data)
          /\ hist' = Append(hist, d)
          /\ last' = Returned("push", d, 0, UNDEF)
  /\ UNCHANGED kind

Stack_push(d) ==
  /\ kind = "Stack"
  /\ Room
  /\ IF NodeRejects(d)
     THEN /\ Unchanged
          /\ UNCHANGED hist
          /\ last' = Thrown("push", d, 0, "Error",
                            NodeError)
     ELSE LET newHead == Fresh IN
          /\ Store(newHead, NULL, size + 1,
                   (newHead :> head) @@ next, (newHead :> d) @@ data)
          /\ hist' = Append(hist, d)
          /\ last' = Returned("push", d, 0, UNDEF)
  /\ UNCHANGED kind

\* pop that forgets `this._size--`
Stack_pop_KeepSize ==
  /\ kind = "Stack"
  /\ IF head = NULL
     THEN /\ Unchanged
          /\ UNCHANGED hist
          /\ last' = Thrown("pop", UNDEF, 0, "StackUnderflowError",
                            "Cannot pop from an empty stack")
     ELSE /\ Store(next[head], NULL, size, next, data)
          /\ hist' = RemoveLast(hist)
          /\ last' = Returned("pop", UNDEF, 0, data[head])
  /\ UNCHANGED kind

Stack_pop ==
  /\ kind = "Stack"
  /\ IF head = NULL
     THEN /\ Unchanged
          /\ UNCHANGED hist
          /\ last' = Thrown("pop", UNDEF, 0, "StackUnderflowError",
                            "Cannot pop from an empty stack")
     ELSE /\ Store(next[head], NULL, size - 1, next, data)
          /\ hist' = RemoveLast(hist)
          /\ last' = Returned("pop", UNDEF, 0, data[head])
  /\ UNCHANGED kind

Stack_peek ==
  /\ kind = "Stack"
  /\ Unchanged
  /\ UNCHANGED <<kind, hist>>
  /\ last' = IF head = NULL
             THEN Thrown("peek", UNDEF, 0, "StackUnderflowError",
                         "Cannot peek at an empty stack")
             ELSE Returned("peek", UNDEF, 0, data[head])

\* top() returns this.peek()
\* a top that fails with a plain Error
Stack_top_PlainError ==
  /\ kind = "Stack"
  /\ Unchanged
  /\ UNCHANGED <<kind, hist>>
  /\ last' = IF head = NULL
             THEN Thrown("top", UNDEF, 0, "Error",
                         "Cannot peek at an empty stack")
             ELSE Returned("top", UNDEF, 0, data[head])

Stack_top ==
  /\ kind = "Stack"
  /\ Unchanged
  /\ UNCHANGED <<kind, hist>>
  /\ last' = IF head = NULL
             THEN Thrown("top", UNDEF, 0, "StackUnderflowError",
                         "Cannot peek at an empty stack")
             ELSE Returned("top", UNDEF, 0, data[head])

Stack_clear ==
  /\ kind = "Stack"
  /\ Store(NULL, NULL, 0, next, data)
  /\ hist' = <<>>
  /\ last' = Returned("clear", UNDEF, 0, UNDEF)
  /\ UNCHANGED kind

(* ------------------------- ALinearStructure --------------------------- *)
\* the base constructor: a node only for a truthy argument
ALinearStructure_constructor(d) == IF Truthy(d) THEN Fresh ELSE NULL

(* ------------------------------- Queue -------------------------------- *)
Queue_toArray == [i \in 1..Len(Chain) |-> data[Chain[i]]]

Queue_isEmpty == size = 0

Queue_constructor(d) ==
  /\ kind = "none"
  /\ kind' = "Queue"
  /\ LET h == ALinearStructure_constructor(d)
         nx == IF h = NULL THEN next ELSE (h :> NULL) @@ next
         dt == IF h = NULL THEN data ELSE (h :> d) @@ data
     IN  /\ IF d # UNDEF
            THEN Store(h, h, 1, nx, dt)
            ELSE Store(h, NULL, 0, nx, dt)
         /\ hist' = IF h = NULL THEN <<>> ELSE <<d>>
  /\ last' = Returned("Queue", d, 0, UNDEF)

\* push that links the new node in front of head, as Stack.push
Queue_push_AtFront(d) ==
  /\ kind = "Queue"
  /\ Room
  /\ IF NodeRejects(d)
     THEN /\ Unchanged
          /\ UNCHANGED hist
          /\ last' = Thrown("push", d, 0, "Error", NodeError)
     ELSE LET newNode == Fresh IN
          /\ IF head = NULL
             THEN Store(newNode, newNode, size + 1,
                        (newNode :> NULL) @@ next, (newNode :> d) @@ data)
             ELSE Store(newNode, tail, size + 1,
                        (newNode :> head) @@ next, (newNode :> d) @@ data)
          /\ hist' = Append(hist, d)
          /\ last' = Returned("push", d, 0, UNDEF)
  /\ UNCHANGED kind

Queue_push(d) ==
  /\ kind = "Queue"
  /\ Room
  /\ IF NodeRejects(d)
     THEN /\ Unchanged
          /\ UNCHANGED hist
          /\ last' = Thrown("push", d, 0, "Error",
                            NodeError)
     ELSE LET newNode == Fresh IN
          /\ IF head = NULL
             THEN Store(newNode, newNode, size + 1,
                        (newNode :> NULL) @@ next, (newNode :> d) @@ data)
             ELSE IF tail = NULL
             THEN /\ Unchanged
             ELSE Store(head, newNode, size + 1,
                        (tail :> newNode) @@ (newNode :> NULL) @@ next,
                        (newNode :> d) @@ data)
          /\ IF head # NULL /\ tail = NULL
             THEN /\ UNCHANGED hist
                  /\ last' = Thrown("push", d, 0, "TypeError", NullError)
             ELSE /\ hist' = Append(hist, d)
                  /\ last' = Returned("push", d, 0, UNDEF)
  /\ UNCHANGED kind

\* a pop that returns null on an empty queue, as IQueue.pop is documented
Queue_pop_ReturnsNull ==
  /\ kind = "Queue"
  /\ IF head = NULL
     THEN /\ Unchanged
          /\ UNCHANGED hist
          /\ last' = Returned("pop", UNDEF, 0, NULLV)
     ELSE /\ Store(next[head], IF next[head] = NULL THEN NULL ELSE tail,
                   size - 1, next, data)
          /\ hist' = RemoveFirst(hist)
          /\ last' = Returned("pop", UNDEF, 0, data[head])
  /\ UNCHANGED kind

Queue_pop ==
  /\ kind = "Queue"
  /\ IF head = NULL
     THEN /\ Unchanged
          /\ UNCHANGED hist
          /\ last' = Thrown("pop", UNDEF, 0, "QueueUnderflowError",
                            "Cannot dequeue from an empty queue.")
     ELSE /\ Store(next[head], IF next[head] = NULL THEN NULL ELSE tail,
                   size - 1, next, data)
          /\ hist' = RemoveFirst(hist)
          /\ last' = Returned("pop", UNDEF, 0, data[head])
  /\ UNCHANGED kind

\* a peek that also unlinks the front node
Queue_peek_Dequeue ==
  /\ kind = "Queue"
  /\ UNCHANGED <<kind, hist>>
  /\ IF head = NULL
     THEN /\ Unchanged
          /\ last' = Thrown("peek", UNDEF, 0, "QueueUnderflowError",
                            "Cannot peek at an empty queue.")
     ELSE /\ Store(next[head], tail, size, next, data)
          /\ last' = Returned("peek", UNDEF, 0, data[head])

Queue_peek ==
  /\ kind = "Queue"
  /\ Unchanged
  /\ UNCHANGED <<kind, hist>>
  /\ last' = IF head = NULL
             THEN Thrown("peek", UNDEF, 0, "QueueUnderflowError",
                         "Cannot peek at an empty queue.")
             ELSE Returned("peek", UNDEF, 0, data[head])

Queue_rear ==
  /\ kind = "Queue"
  /\ Unchanged
  /\ UNCHANGED <<kind, hist>>
  /\ last' = IF tail = NULL
             THEN Thrown("rear", UNDEF, 0, "QueueUnderflowError",
                         "Cannot access rear of an empty queue.")
             ELSE Returned("rear", UNDEF, 0, data[tail])

\* a clear that forgets to reset the tail
Queue_clear_KeepTail ==
  /\ kind = "Queue"
  /\ Store(NULL, tail, 0, next, data)
  /\ hist' = <<>>
  /\ last' = Returned("clear", UNDEF, 0, UNDEF)
  /\ UNCHANGED kind

Queue_clear ==
  /\ kind = "Queue"
  /\ Store(NULL, NULL, 0, next, data)
  /\ hist' = <<>>
  /\ last' = Returned("clear", UNDEF, 0, UNDEF)
  /\ UNCHANGED kind

(* -------------------------------- Node -------------------------------- *)
\* hasData that compares plain objects by what they contain
hasData_Deep(n, d) ==
  IF data[n][1] = "comparable"
  THEN d[1] = "comparable" /\ data[n][2] = d[2]
  ELSE IF data[n][1] = "object" /\ d[1] = "object" THEN data[n][3] = d[3]
  ELSE ~IsNaN(d) /\ data[n] = d

\* Node.hasData: the value's own isEqual when it has one, else ===
hasData(n, d) ==
  IF data[n][1] = "comparable"
  THEN d[1] = "comparable" /\ data[n][2] = d[2]
  ELSE ~IsNaN(d) /\ data[n] = d

(* -------------------------------- List -------------------------------- *)
IndexError == "Index out of bounds."

\* indices a caller passes to insert / find / remove
Indices == (0 - 1)..(MaxSize + 1)

BOOL(b) == <<"boolean", IF b THEN 1 ELSE 0>>

List_toArray == [i \in 1..Len(Chain) |-> data[Chain[i]]]

List_isEmpty == size = 0

List_constructor(d) ==
  /\ kind = "none"
  /\ kind' = "List"
  /\ LET h == ALinearStructure_constructor(d)
         nx == IF h = NULL THEN next ELSE (h :> NULL) @@ next
         dt == IF h = NULL THEN data ELSE (h :> d) @@ data
     IN  IF d # UNDEF
         THEN Store(h, h, 1, nx, dt)
         ELSE Store(h, NULL, 0, nx, dt)
  /\ last' = Returned("List", d, 0, UNDEF)
  /\ UNCHANGED hist

\* body of push(data), reported as the call `op`
List_pushAs(op, idx, d) ==
  IF NodeRejects(d)
  THEN /\ Unchanged
       /\ last' = Thrown(op, d, idx, "Error", NodeError)
  ELSE LET newNode == Fresh IN
       IF head = NULL
       THEN /\ Store(newNode, newNode, size + 1,
                     (newNode :> NULL) @@ next, (newNode :> d) @@ data)
            /\ last' = Returned(op, d, idx, UNDEF)
       ELSE IF tail = NULL
       THEN /\ Unchanged
            /\ last' = Thrown(op, d, idx, "TypeError", NullError)
       ELSE /\ Store(head, newNode, size + 1,
                     (tail :> newNode) @@ (newNode :> NULL) @@ next,
                     (newNode :> d) @@ data)
            /\ last' = Returned(op, d, idx, UNDEF)

\* body of prepend(data), reported as the call `op`
List_prependAs(op, idx, d) ==
  IF NodeRejects(d)
  THEN /\ Unchanged
       /\ last' = Thrown(op, d, idx, "Error", NodeError)
  ELSE LET newNode == Fresh IN
       /\ IF head = NULL
          THEN Store(newNode, newNode, size + 1,
                     (newNode :> NULL) @@ next, (newNode :> d) @@ data)
          ELSE Store(newNode, tail, size + 1,
                     (newNode :> head) @@ next, (newNode :> d) @@ data)
       /\ last' = Returned(op, d, idx, UNDEF)

List_push(d) ==
  /\ kind = "List"
  /\ Room
  /\ List_pushAs("push", 0, d)
  /\ UNCHANGED <<kind, hist>>

List_prepend(d) ==
  /\ kind = "List"
  /\ Room
  /\ List_prependAs("prepend", 0, d)
  /\ UNCHANGED <<kind, hist>>

List_insert(index, d) ==
  /\ kind = "List"
  /\ Room
  /\ IF index < 0 \/ index > size
     THEN /\ Unchanged
          /\ last' = Thrown("insert", d, index, "Error", IndexError)
     ELSE IF index = 0
     THEN List_prependAs("insert", index, d)
     ELSE IF index = size
     THEN List_pushAs("insert", index, d)
     ELSE IF NodeRejects(d)
     THEN /\ Unchanged
          /\ last' = Thrown("insert", d, index, "Error", NodeError)
     ELSE LET newNode == Fresh
              current == Advance(head, index - 1, next)
          IN  IF current = NULL \/ current = DEREF_NULL
              THEN /\ Unchanged
                   /\ last' = Thrown("insert", d, index, "TypeError", NullError)
              ELSE /\ Store(head, tail, size + 1,
                            (current :> newNode) @@ (newNode :> next[current]) @@ next,
                            (newNode :> d) @@ data)
                   /\ last' = Returned("insert", d, index, UNDEF)
  /\ UNCHANGED <<kind, hist>>

\* find whose bounds check accepts index = size
List_findResult_OffByOne(index) ==
  IF index < 0 \/ index > size
  THEN Thrown("find", UNDEF, index, "Error", IndexError)
  ELSE LET current == Advance(head, index, next) IN
       IF current = NULL \/ current = DEREF_NULL
       THEN Thrown("find", UNDEF, index, "TypeError", NullError)
       ELSE Returned("find", UNDEF, index, data[current])

\* outcome of find(index)
List_findResult(index) ==
  IF index < 0 \/ index >= size
  THEN Thrown("find", UNDEF, index, "Error", IndexError)
  ELSE LET current == Advance(head, index, next) IN
       IF current = NULL \/ current = DEREF_NULL
       THEN Thrown("find", UNDEF, index, "TypeError", NullError)
       ELSE Returned("find", UNDEF, index, data[current])

List_find(index) ==
  /\ kind = "List"
  /\ Unchanged
  /\ UNCHANGED <<kind, hist>>
  /\ last' = List_findResult(index)

NUM(k) == <<"number", k>>

RECURSIVE IndexFrom_LastMatch(_, _, _)
\* an indexOf loop that keeps walking and reports the last match
IndexFrom_LastMatch(current, index, d) ==
  IF current = NULL THEN 0 - 1
  ELSE LET rest == IndexFrom_LastMatch(next[current], index + 1, d) IN
       IF rest # 0 - 1 THEN rest
       ELSE IF hasData(current, d) THEN index ELSE 0 - 1

RECURSIVE IndexFrom(_, _, _)
\* the loop of indexOf: first position from `current` whose node has the data
IndexFrom(current, index, d) ==
  IF current = NULL THEN 0 - 1
  ELSE IF hasData(current, d) THEN index
  ELSE IndexFrom(next[current], index + 1, d)

List_indexOf(d) == IndexFrom(head, 0, d)

List_contains(d) == List_indexOf(d) # 0 - 1

\* a call of indexOf(d)
List_indexOfCall(d) ==
  /\ kind = "List"
  /\ Unchanged
  /\ last' = Returned("indexOf", d, 0, NUM(List_indexOf(d)))
  /\ UNCHANGED <<kind, hist>>

\* a call of contains(d)
List_containsCall(d) ==
  /\ kind = "List"
  /\ Unchanged
  /\ last' = Returned("contains", d, 0, BOOL(List_contains(d)))
  /\ UNCHANGED <<kind, hist>>

\* a remove that leaves tail as it is when the last node is unlinked
List_removeAs_KeepTail(op, arg, index, val) ==
  IF index < 0 \/ index >= size
  THEN /\ Unchanged
       /\ last' = Thrown(op, arg, index, "Error", IndexError)
  ELSE IF index = 0
  THEN IF head = NULL
       THEN /\ Unchanged
            /\ last' = Thrown(op, arg, index, "TypeError", NullError)
       ELSE /\ Store(next[head], IF size = 1 THEN NULL ELSE tail, size - 1,
                     next, data)
            /\ last' = Returned(op, arg, index, val)
  ELSE LET current == Advance(head, index - 1, next)
           nodeToRemove == IF current = NULL \/ current = DEREF_NULL
                           THEN DEREF_NULL ELSE next[current]
       IN  IF nodeToRemove = DEREF_NULL \/ nodeToRemove = NULL
           THEN /\ Unchanged
                /\ last' = Thrown(op, arg, index, "TypeError", NullError)
           ELSE /\ Store(head, tail, size - 1,
                         (current :> next[nodeToRemove]) @@ next, data)
                /\ last' = Returned(op, arg, index, val)

\* body of remove(index), reported as the call `op` returning `val`
List_removeAs(op, arg, index, val) ==
  IF index < 0 \/ index >= size
  THEN /\ Unchanged
       /\ last' = Thrown(op, arg, index, "Error", IndexError)
  ELSE IF index = 0
  THEN IF head = NULL
       THEN /\ Unchanged
            /\ last' = Thrown(op, arg, index, "TypeError", NullError)
       ELSE /\ Store(next[head], IF size = 1 THEN NULL ELSE tail, size - 1,
                     next, data)
            /\ last' = Returned(op, arg, index, val)
  ELSE LET current == Advance(head, index - 1, next)
           nodeToRemove == IF current = NULL \/ current = DEREF_NULL
                           THEN DEREF_NULL ELSE next[current]
       IN  IF nodeToRemove = DEREF_NULL \/ nodeToRemove = NULL
           THEN /\ Unchanged
                /\ last' = Thrown(op, arg, index, "TypeError", NullError)
           ELSE /\ Store(head, IF index = size - 1 THEN current ELSE tail,
                         size - 1,
                         (current :> next[nodeToRemove]) @@ next, data)
                /\ last' = Returned(op, arg, index, val)

List_remove(index) ==
  /\ kind = "List"
  /\ List_removeAs("remove", UNDEF, index, UNDEF)
  /\ UNCHANGED <<kind, hist>>

\* a removeData that unlinks the head whenever some element matches
List_removeData_Head(d) ==
  /\ kind = "List"
  /\ LET index == List_indexOf(d) IN
     IF index = 0 - 1
     THEN /\ Unchanged
          /\ last' = Returned("removeData", d, 0, BOOL(FALSE))
     ELSE List_removeAs("removeData", d, 0, BOOL(TRUE))
  /\ UNCHANGED <<kind, hist>>

List_removeData(d) ==
  /\ kind = "List"
  /\ LET index == List_indexOf(d) IN
     IF index = 0 - 1
     THEN /\ Unchanged
          /\ last' = Returned("removeData", d, 0, BOOL(FALSE))
     ELSE List_removeAs("removeData", d, index, BOOL(TRUE))
  /\ UNCHANGED <<kind, hist>>

List_clear ==
  /\ kind = "List"
  /\ Store(NULL, NULL, 0, next, data)
  /\ last' = Returned("clear", UNDEF, 0, UNDEF)
  /\ UNCHANGED <<kind, hist>>

(* ------------------------------ iteration ----------------------------- *)
\* the IteratorResult { value: undefined, done: true }
DONE == <<"done", 0>>

\* the array toArray() builds: the data of the chain from head
Elements == [i \in 1..Len(Chain) |-> data[Chain[i]]]

\* [Symbol.iterator](): returns a generator whose body has not started
Iterator ==
  /\ StoreAll(head, tail, size, next, data,
              [pc |-> "start", current |-> NULL, rest |-> Elements,
               dirty |-> FALSE])
  /\ last' = Returned("iterator", UNDEF, 0, UNDEF)
  /\ UNCHANGED <<kind, hist>>

Stack_iterator ==
  /\ kind = "Stack"
  /\ Iterator

Queue_iterator ==
  /\ kind = "Queue"
  /\ Iterator

List_iterator ==
  /\ kind = "List"
  /\ Iterator

\* a generator that ends when the values it was obtained for are used up
Generator_current_StopAtSnap(it) ==
  IF it.rest = <<>> THEN NULL
  ELSE IF it.pc = "start" THEN head ELSE next[it.current]

\* a generator whose first step starts from the second node
Generator_current_SkipHead(it) ==
  IF it.pc = "start"
  THEN IF head = NULL THEN NULL ELSE next[head]
  ELSE next[it.current]

\* the node the loop test sees when the generator resumes:
\* `let current = this._head` at the first step, `current = current.next`
\* at the later ones
Generator_current(it) ==
  IF it.pc = "start" THEN head ELSE next[it.current]

\* one call of next() on the generator
Generator_next ==
  /\ iter.pc # "none"
  /\ IF iter.pc = "done"
     THEN /\ Unchanged
          /\ last' = Returned("next", UNDEF, 0, DONE)
     ELSE LET current == Generator_current(iter) IN
          IF current = NULL
          THEN /\ StoreAll(head, tail, size, next, data,
                           [iter EXCEPT !.pc = "done", !.current = NULL])
               /\ last' = Returned("next", UNDEF, 0, DONE)
          ELSE /\ StoreAll(head, tail, size, next, data,
                           [iter EXCEPT !.pc = "yielded", !.current = current,
                                        !.rest = RemoveFirst(@)])
               /\ last' = Returned("next", UNDEF, 0, data[current])
  /\ UNCHANGED <<kind, hist>>

(* -------------------------- read-only calls --------------------------- *)
\* a call that only returns val
Read(op, arg, val) ==
  /\ Unchanged
  /\ last' = Returned(op, arg, 0, val)
  /\ UNCHANGED <<kind, hist>>

Stack_size ==
  /\ kind = "Stack"
  /\ Read("size", UNDEF, NUM(size))
Queue_size ==
  /\ kind = "Queue"
  /\ Read("size", UNDEF, NUM(size))
List_size ==
  /\ kind = "List"
  /\ Read("size", UNDEF, NUM(size))

Stack_isEmptyCall ==
  /\ kind = "Stack"
  /\ Read("isEmpty", UNDEF, BOOL(Stack_isEmpty))
Queue_isEmptyCall ==
  /\ kind = "Queue"
  /\ Read("isEmpty", UNDEF, BOOL(Queue_isEmpty))
List_isEmptyCall ==
  /\ kind = "List"
  /\ Read("isEmpty", UNDEF, BOOL(List_isEmpty))

\* a contains that looks at the first node only
ContainsFrom_FirstOnly(current, d) ==
  current # NULL /\ hasData(current, d)

RECURSIVE ContainsFrom(_, _)
\* the loop of Stack.contains and Queue.contains
ContainsFrom(current, d) ==
  IF current = NULL THEN FALSE
  ELSE IF hasData(current, d) THEN TRUE
  ELSE ContainsFrom(next[current], d)

Stack_contains(d) ==
  /\ kind = "Stack"
  /\ Read("contains", d, BOOL(ContainsFrom(head, d)))
Queue_contains(d) ==
  /\ kind = "Queue"
  /\ Read("contains", d, BOOL(ContainsFrom(head, d)))

\* toArray() whose result the caller uses in place and does not keep
Stack_toArrayInPlace ==
  /\ kind = "Stack"
  /\ Read("toArray", UNDEF, <<"array", Stack_toArray>>)
Queue_toArrayInPlace ==
  /\ kind = "Queue"
  /\ Read("toArray", UNDEF, <<"array", Queue_toArray>>)
List_toArrayInPlace ==
  /\ kind = "List"
  /\ Read("toArray", UNDEF, <<"array", List_toArray>>)

\* the characters of the decimal digits
Digit == <<"0", "1", "2", "3", "4", "5", "6", "7", "8", "9">>

RECURSIVE Digits(_)
\* String(n) of a natural number: its decimal digits
Digits(n) ==
  IF n < 10 THEN <<Digit[n + 1]>>
  ELSE Digits(n \div 10) \o <<Digit[(n % 10) + 1]>>

\* String(v) of a value a node can hold, as its characters
StringOf(v) ==
  CASE IsNaN(v) -> <<"N", "a", "N">>
    [] v[1] = "number" /\ ~IsNaN(v) -> Digits(v[2])
    [] v[1] = "boolean" -> IF v[2] = 1 THEN <<"t", "r", "u", "e">>
                           ELSE <<"f", "a", "l", "s", "e">>
    [] v[1] = "string" -> <<>>
    [] OTHER -> <<"[", "o", "b", "j", "e", "c", "t", " ",
                  "O", "b", "j", "e", "c", "t", "]">>

RECURSIVE Join(_)
\* Array.prototype.join(', ')
Join(a) ==
  IF a = <<>> THEN <<>>
  ELSE IF Len(a) = 1 THEN StringOf(a[1])
  ELSE StringOf(a[1]) \o <<",", " ">> \o Join(Tail(a))

Stack_toString ==
  IF Stack_isEmpty
  THEN <<"S", "t", "a", "c", "k", "(", "0", ")", " ", "[", "]">>
  ELSE <<"S", "t", "a", "c", "k", "(">> \o Digits(size) \o <<")", " ", "[">>
       \o Join(Stack_toArray) \o <<"]">>

Queue_toString ==
  <<"Q", "u", "e", "u", "e", "(">> \o Digits(size) \o <<")", "[">>
  \o Join(Queue_toArray) \o <<"]">>

\* a rendering without the size
List_toString_NoSize ==
  <<"L", "i", "s", "t", "(", ")", "[">> \o Join(List_toArray) \o <<"]">>

List_toString ==
  <<"L", "i", "s", "t", "(">> \o Digits(size) \o <<")", "[">>
  \o Join(List_toArray) \o <<"]">>

Stack_toStringCall ==
  /\ kind = "Stack"
  /\ Read("toString", UNDEF, <<"chars", Stack_toString>>)
Queue_toStringCall ==
  /\ kind = "Queue"
  /\ Read("toString", UNDEF, <<"chars", Queue_toString>>)
List_toStringCall ==
  /\ kind = "List"
  /\ Read("toString", UNDEF, <<"chars", List_toString>>)

Stack_toJSON ==
  [type |-> "Stack", size |-> size, isEmpty |-> Stack_isEmpty,
   elements |-> Stack_toArray]

Queue_toJSON == [size |-> size, data |-> Queue_toArray]

List_toJSON == [size |-> size, data |-> List_toArray]

Stack_toJSONCall ==
  /\ kind = "Stack"
  /\ Read("toJSON", UNDEF, <<"json", Stack_toJSON>>)
Queue_toJSONCall ==
  /\ kind = "Queue"
  /\ Read("toJSON", UNDEF, <<"json", Queue_toJSON>>)
List_toJSONCall ==
  /\ kind = "List"
  /\ Read("toJSON", UNDEF, <<"json", List_toJSON>>)

(* --------------------------- returned arrays -------------------------- *)
\* the caller's variables array1 and array2
Slots == {1, 2}

NoArrays == [ref |-> <<NULL, NULL>>, elems |-> << >>]

\* a value only the caller puts into an array
N999 == <<"number", 999>>

\* an allocation that hands out the array the other variable already holds
Array_new_Shared(v) ==
  IF arrays.ref[3 - v] # NULL THEN arrays.ref[3 - v] ELSE 1

\* identity of the array `[]` creates; the array variable v held is released
Array_new(v) == IF arrays.ref[3 - v] = 1 THEN 2 ELSE 1

\* `arrayV = container.toArray()`
toArrayCall(v) ==
  LET result == Array_new(v)
      ref == [arrays.ref EXCEPT ![v] = result]
      elems == (result :> Elements) @@ arrays.elems
  IN  /\ arrays' = [ref |-> ref,
                    elems |-> [a \in {ref[1], ref[2]} \ {NULL} |-> elems[a]]]
      /\ last' = Returned("toArray", UNDEF, v, <<"array", result>>)
      /\ UNCHANGED <<kind, head, tail, size, next, data, hist, iter, other>>

Stack_toArrayCall(v) ==
  /\ kind = "Stack"
  /\ toArrayCall(v)

Queue_toArrayCall(v) ==
  /\ kind = "Queue"
  /\ toArrayCall(v)

List_toArrayCall(v) ==
  /\ kind = "List"
  /\ toArrayCall(v)

\* `arrayV.push(x)` by the caller
Array_push(v, x) ==
  /\ arrays.ref[v] # NULL
  /\ Len(arrays.elems[arrays.ref[v]]) <= MaxIterSize
  /\ arrays' = [arrays EXCEPT !.elems[arrays.ref[v]] = Append(@, x)]
  /\ last' = Returned("Array.push", x, v,
                      NUM(Len(arrays.elems[arrays.ref[v]]) + 1))
  /\ UNCHANGED <<kind, head, tail, size, next, data, hist, iter, other>>

\* `arrayV.pop()` by the caller
Array_pop(v) ==
  /\ arrays.ref[v] # NULL
  /\ LET a == arrays.elems[arrays.ref[v]] IN
     /\ arrays' = [arrays EXCEPT !.elems[arrays.ref[v]] = RemoveLast(a)]
     /\ last' = Returned("Array.pop", UNDEF, v,
                         IF a = <<>> THEN UNDEF ELSE a[Len(a)])
  /\ UNCHANGED <<kind, head, tail, size, next, data, hist, iter, other>>

Init ==
  /\ kind = "none"
  /\ head = NULL
  /\ tail = NULL
  /\ size = 0
  /\ next = << >>
  /\ data = << >>
  /\ last = Returned("init", UNDEF, 0, UNDEF)
  /\ hist = <<>>
  /\ iter = NoIterator
  /\ arrays = NoArrays
  /\ other = NoOther

Next ==
  \/ \E d \in Values : Queue_constructor(d)
  \/ \E d \in Inserted : Queue_push(d)
  \/ Queue_pop
  \/ Queue_peek
  \/ Queue_rear
  \/ Queue_clear
  \/ Queue_size
  \/ Queue_isEmptyCall
  \/ \E d \in Data : Queue_contains(d)
  \/ Queue_toArrayInPlace
  \/ Queue_toStringCall
  \/ Queue_toJSONCall
  \/ \E d \in Values : List_constructor(d)
  \/ \E d \in Inserted : List_push(d)
  \/ \E d \in Inserted : List_prepend(d)
  \/ \E i \in Indices, d \in Inserted : List_insert(i, d)
  \/ \E i \in Indices : List_find(i)
  \/ \E i \in Indices : List_remove(i)
  \/ \E d \in Data : List_removeData(d)
  \/ \E d \in Data : List_indexOfCall(d)
  \/ \E d \in Data : List_containsCall(d)
  \/ List_clear
  \/ List_size
  \/ List_isEmptyCall
  \/ List_toArrayInPlace
  \/ List_toStringCall
  \/ List_toJSONCall
  \/ \E d \in Values : Stack_constructor(d)
  \/ \E d \in Inserted : Stack_push(d)
  \/ Stack_pop
  \/ Stack_peek
  \/ Stack_top
  \/ Stack_clear
  \/ Stack_size
  \/ Stack_isEmptyCall
  \/ \E d \in Data : Stack_contains(d)
  \/ Stack_toArrayInPlace
  \/ Stack_toStringCall
  \/ Stack_toJSONCall

Spec == Init /\ [][Next]_vars

\* an insertion is offered to a container that is iterated or copied
IterRoom == size < MaxIterSize /\ Len(next) <= MaxIterSize

\* arguments passed there: no value, a falsy and a truthy one
IterValues == {UNDEF, N0, N1}
IterData == {N0, N1}
IterIndices == 0..MaxIterSize

\* the constructors, the mutating operations and the generators
NextIter ==
  \/ \E d \in IterValues : Queue_constructor(d)
  \/ IterRoom /\ \E d \in IterData : Queue_push(d)
  \/ Queue_pop
  \/ Queue_clear
  \/ Queue_iterator
  \/ \E d \in IterValues : List_constructor(d)
  \/ IterRoom /\ \E d \in IterData : List_push(d)
  \/ IterRoom /\ \E d \in IterData : List_prepend(d)
  \/ IterRoom /\ \E i \in IterIndices, d \in IterData : List_insert(i, d)
  \/ \E i \in IterIndices : List_remove(i)
  \/ List_clear
  \/ List_iterator
  \/ \E d \in IterValues : Stack_constructor(d)
  \/ IterRoom /\ \E d \in IterData : Stack_push(d)
  \/ Stack_pop
  \/ Stack_clear
  \/ Stack_iterator
  \/ Generator_next

SpecIter == Init /\ [][NextIter]_vars

\* the caller holds no array yet
Before == arrays = NoArrays

\* a caller builds a container, then takes arrays of it and mutates them
NextArr ==
  \/ \E d \in IterValues : Queue_constructor(d)
  \/ Before /\ IterRoom /\ \E d \in IterData : Queue_push(d)
  \/ Before /\ Queue_pop
  \/ Before /\ Queue_clear
  \/ \E v \in Slots : Queue_toArrayCall(v)
  \/ \E d \in IterValues : List_constructor(d)
  \/ Before /\ IterRoom /\ \E d \in IterData : List_push(d)
  \/ Before /\ IterRoom /\ \E d \in IterData : List_prepend(d)
  \/ Before /\ IterRoom /\ \E i \in IterIndices, d \in IterData : List_insert(i, d)
  \/ Before /\ \E i \in IterIndices : List_remove(i)
  \/ Before /\ List_clear
  \/ \E v \in Slots : List_toArrayCall(v)
  \/ \E d \in IterValues : Stack_constructor(d)
  \/ Before /\ IterRoom /\ \E d \in IterData : Stack_push(d)
  \/ Before /\ Stack_pop
  \/ Before /\ Stack_clear
  \/ \E v \in Slots : Stack_toArrayCall(v)
  \/ \E v \in Slots : Array_push(v, N999)
  \/ \E v \in Slots : Array_pop(v)

SpecArr == Init /\ [][NextArr]_vars
(* ---------------------- nodes handed to the caller --------------------- *)
CircularError == "Cannot set next to self - circular reference detected"

\* a node reference, as an argument
NodeRef(n) == <<"node", n>>

\* the nodes a caller reaches through the head and tail getters and the
\* next getter of the nodes they return
Exposed == Range(LiveOrder(head, tail, NULL, next))

\* a setter without the check, as the minimal SingleNode
SingleNode_setNext_Unchecked(n, m) ==
  /\ kind # "none"
  /\ n \in Exposed
  /\ m \in Exposed \cup {NULL}
  /\ next' = [next EXCEPT ![n] = m]
  /\ last' = Returned("next=", NodeRef(m), n, UNDEF)
  /\ UNCHANGED <<kind, head, tail, size, data, hist, iter, arrays, other>>

\* `node.next = other`, node and other reached from container.head or
\* container.tail
SingleNode_setNext(n, m) ==
  /\ kind # "none"
  /\ n \in Exposed
  /\ m \in Exposed \cup {NULL}
  /\ IF m = n
     THEN /\ UNCHANGED next
          /\ last' = Thrown("next=", NodeRef(m), n, "Error", CircularError)
     ELSE /\ next' = [next EXCEPT ![n] = m]
          /\ last' = Returned("next=", NodeRef(m), n, UNDEF)
  /\ UNCHANGED <<kind, head, tail, size, data, hist, iter, arrays, other>>

\* the caller has not written a link yet
Untouched == last.op # "next="

\* node identities
Nodes == 1..(MaxNodes + 1)

\* a caller builds a container with its methods, then writes one link of a
\* node the container hands out
NextCaller ==
  \/ Untouched /\ \E d \in IterValues : Queue_constructor(d)
  \/ Untouched /\ IterRoom /\ \E d \in IterData : Queue_push(d)
  \/ Untouched /\ Queue_pop
  \/ Untouched /\ Queue_clear
  \/ Untouched /\ \E d \in IterValues : List_constructor(d)
  \/ Untouched /\ IterRoom /\ \E d \in IterData : List_push(d)
  \/ Untouched /\ IterRoom /\ \E d \in IterData : List_prepend(d)
  \/ Untouched /\ IterRoom /\ \E i \in IterIndices, d \in IterData : List_insert(i, d)
  \/ Untouched /\ \E i \in IterIndices : List_remove(i)
  \/ Untouched /\ List_clear
  \/ Untouched /\ \E d \in IterValues : Stack_constructor(d)
  \/ Untouched /\ IterRoom /\ \E d \in IterData : Stack_push(d)
  \/ Untouched /\ Stack_pop
  \/ Untouched /\ Stack_clear
  \/ Untouched /\ \E n \in Nodes, m \in Nodes \cup {NULL} : SingleNode_setNext(n, m)

SpecCaller == Init /\ [][NextCaller]_vars

(* ------------------------- nodes by themselves ------------------------ *)
\* Values nodes are built with.  A plain object is <<"object", identity,
\* contents>>; objects 1 and 3 are distinct and hold the same.  A string is
\* <<"string", k>>, ordered as its key.  A Comparable is <<"comparable", k>>,
\* an instance of MockClass with _mockProperty = k.
Keys == 0..MaxKey
Objects == {<<"object", i, i % 2>> : i \in 1..(MaxKey + 2)}
NodeValues ==
  ({"number", "string", "comparable"} \X Keys)
    \cup ({"boolean"} \X {0, 1}) \cup Objects \cup {NAN}

CompareError == "Data types do not support comparison"

\* MockClass.isGreaterThan: this._mockProperty > object.mockProperty, which
\* is undefined (and the comparison false) when object is no MockClass
Comparable_isGreaterThan(a, b) == b[1] = "comparable" /\ a[2] > b[2]

\* MockClass.isLesserThan
Comparable_isLesserThan(a, b) == b[1] = "comparable" /\ a[2] < b[2]

\* Node.equals
equals(n, m) == hasData(n, data[m])

\* isGreaterThan that also holds between equal numbers and strings
isGreaterThan_OrEqual(n, m) ==
  LET this == data[n]
      that == data[m]
  IN  IF this[1] = "comparable"
      THEN Returned("isGreaterThan", NodeRef(m), n,
                    BOOL(Comparable_isGreaterThan(this, that)))
      ELSE IF this[1] = "number" /\ that[1] = "number"
      THEN Returned("isGreaterThan", NodeRef(m), n,
                    BOOL(~IsNaN(this) /\ ~IsNaN(that) /\ this[2] >= that[2]))
      ELSE IF this[1] = "string" /\ that[1] = "string"
      THEN Returned("isGreaterThan", NodeRef(m), n, BOOL(this[2] >= that[2]))
      ELSE Thrown("isGreaterThan", NodeRef(m), n, "Error", CompareError)

\* Node.isGreaterThan, as the call `node n .isGreaterThan(node m)`
isGreaterThan(n, m) ==
  LET this == data[n]
      that == data[m]
  IN  IF this[1] = "comparable"
      THEN Returned("isGreaterThan", NodeRef(m), n,
                    BOOL(Comparable_isGreaterThan(this, that)))
      ELSE IF this[1] = "number" /\ that[1] = "number"
      THEN Returned("isGreaterThan", NodeRef(m), n,
                    BOOL(~IsNaN(this) /\ ~IsNaN(that) /\ this[2] > that[2]))
      ELSE IF this[1] = "string" /\ that[1] = "string"
      THEN Returned("isGreaterThan", NodeRef(m), n, BOOL(this[2] > that[2]))
      ELSE Thrown("isGreaterThan", NodeRef(m), n, "Error", CompareError)

\* isLessThan that answers as isGreaterThan
isLessThan_Greater(n, m) ==
  [isGreaterThan(n, m) EXCEPT !.op = "isLessThan"]

\* Node.isLessThan
isLessThan(n, m) ==
  LET this == data[n]
      that == data[m]
  IN  IF this[1] = "comparable"
      THEN Returned("isLessThan", NodeRef(m), n,
                    BOOL(Comparable_isLesserThan(this, that)))
      ELSE IF this[1] = "number" /\ that[1] = "number"
      THEN Returned("isLessThan", NodeRef(m), n,
                    BOOL(~IsNaN(this) /\ ~IsNaN(that) /\ this[2] < that[2]))
      ELSE IF this[1] = "string" /\ that[1] = "string"
      THEN Returned("isLessThan", NodeRef(m), n, BOOL(this[2] < that[2]))
      ELSE Thrown("isLessThan", NodeRef(m), n, "Error", CompareError)

\* a call of a Node method, which writes nothing
NodeCall(result) ==
  /\ last' = result
  /\ UNCHANGED <<kind, hist>>
  /\ Unchanged

Node_hasData(n, v) ==
  /\ n \in DOMAIN data
  /\ NodeCall(Returned("hasData", v, n, BOOL(hasData(n, v))))

Node_equals(n, m) ==
  /\ {n, m} \subseteq DOMAIN data
  /\ NodeCall(Returned("equals", NodeRef(m), n, BOOL(equals(n, m))))

Node_isGreaterThan(n, m) ==
  /\ {n, m} \subseteq DOMAIN data
  /\ NodeCall(isGreaterThan(n, m))

Node_isLessThan(n, m) ==
  /\ {n, m} \subseteq DOMAIN data
  /\ NodeCall(isLessThan(n, m))

\* a clone that keeps the link of the original
SingleNode_clone_KeepLink(n) ==
  /\ n \in DOMAIN data
  /\ Len(data) < 3
  /\ next' = Append(next, next[n])
  /\ data' = Append(data, data[n])
  /\ last' = Returned("clone", UNDEF, n, NodeRef(Len(data) + 1))
  /\ UNCHANGED <<kind, head, tail, size, hist, iter, arrays, other>>

\* SingleNode.clone: `new SingleNode(this.data)`; the caller keeps one clone
SingleNode_clone(n) ==
  /\ n \in DOMAIN data
  /\ Len(data) < 3
  /\ next' = Append(next, NULL)
  /\ data' = Append(data, data[n])
  /\ last' = Returned("clone", UNDEF, n, NodeRef(Len(data) + 1))
  /\ UNCHANGED <<kind, head, tail, size, hist, iter, arrays, other>>

\* two nodes built by a caller, `new SingleNode(a)` and `new SingleNode(b)`,
\* in no container, the first linked to the second or not
InitCompare ==
  /\ kind = "none"
  /\ head = NULL
  /\ tail = NULL
  /\ size = 0
  /\ next \in {<<NULL, NULL>>, <<2, NULL>>}
  /\ data \in [{1, 2} -> NodeValues]
  /\ last = Returned("init", UNDEF, 0, UNDEF)
  /\ hist = <<>>
  /\ iter = NoIterator
  /\ arrays = NoArrays
  /\ other = NoOther

NextCompare ==
  \/ \E n \in {1, 2}, v \in NodeValues : Node_hasData(n, v)
  \/ \E n \in {1, 2}, m \in {1, 2} : Node_equals(n, m)
  \/ \E n \in {1, 2}, m \in {1, 2} : Node_isGreaterThan(n, m)
  \/ \E n \in {1, 2}, m \in {1, 2} : Node_isLessThan(n, m)
  \/ \E n \in {1, 2} : SingleNode_clone(n)

SpecCompare == InitCompare /\ [][NextCompare]_vars

(* ----------------------------- the errors ----------------------------- *)
TRUE_V == <<"boolean", 1>>

\* values pushed where every failure is to be met: an absent one, a number
\* and a boolean
ErrData == {NULLV, N1, TRUE_V}

\* a caller builds a container, calls the operations that can fail, compares
\* the nodes it hands out and sets their links
NextErrors ==
  \/ Untouched /\ \E d \in IterValues : Queue_constructor(d)
  \/ Untouched /\ IterRoom /\ \E d \in ErrData : Queue_push(d)
  \/ Untouched /\ Queue_pop
  \/ Untouched /\ Queue_peek
  \/ Untouched /\ Queue_rear
  \/ Untouched /\ \E d \in IterValues : List_constructor(d)
  \/ Untouched /\ IterRoom /\ \E d \in ErrData : List_push(d)
  \/ Untouched /\ IterRoom /\ \E d \in ErrData : List_prepend(d)
  \/ Untouched /\ IterRoom /\ \E i \in IterIndices, d \in ErrData : List_insert(i, d)
  \/ Untouched /\ \E i \in IterIndices : List_find(i)
  \/ Untouched /\ \E i \in IterIndices : List_remove(i)
  \/ Untouched /\ \E d \in IterValues : Stack_constructor(d)
  \/ Untouched /\ IterRoom /\ \E d \in ErrData : Stack_push(d)
  \/ Untouched /\ Stack_pop
  \/ Untouched /\ Stack_peek
  \/ Untouched /\ Stack_top
  \/ Untouched /\ \E n \in Nodes, m \in Nodes : Node_isGreaterThan(n, m)
  \/ Untouched /\ \E n \in Nodes, m \in Nodes : Node_isLessThan(n, m)
  \/ Untouched /\ \E n \in Nodes, m \in Nodes \cup {NULL} : SingleNode_setNext(n, m)

SpecErrors == Init /\ [][NextErrors]_vars

(* ------------------------- membership of NaN -------------------------- *)
\* a stack or a queue that is filled, emptied and asked for a value; the
\* values pushed and asked for are a number and the number that is not equal
\* to itself
NextContains ==
  \/ \E d \in IterValues : Queue_constructor(d)
  \/ \E d \in {N1, NAN} : Queue_push(d)
  \/ Queue_pop
  \/ Queue_clear
  \/ \E d \in {N1, NAN} : Queue_contains(d)
  \/ \E d \in IterValues : Stack_constructor(d)
  \/ \E d \in {N1, NAN} : Stack_push(d)
  \/ Stack_pop
  \/ Stack_clear
  \/ \E d \in {N1, NAN} : Stack_contains(d)

SpecContains == Init /\ [][NextContains]_vars

(* --------------------------- frozen values ---------------------------- *)
\* An object with a property of its own (key) and a nested object that has
\* one (inner.key), each with the flag Object.freeze sets:
\* { key: k, inner: { key: j } }
ObjectOf(k, j) ==
  [frozen |-> FALSE, key |-> k, inner |-> [frozen |-> FALSE, key |-> j]]

\* Object.freeze(o): the properties of o itself become read-only, the
\* objects they refer to are not touched
Object_freeze(o) == [o EXCEPT !.frozen = TRUE]

\* Node.constructor: what is stored in _data
Node_freeze(v) ==
  IF v[1] = "object" THEN <<"object", v[2], Object_freeze(v[3])>> ELSE v

\* `new SingleNode(v)` by a caller that keeps up to two nodes; the object
\* takes the identity of the node that holds it
Node_constructor(v) ==
  /\ kind = "none"
  /\ Len(data) < 2
  /\ IF NodeRejects(v)
     THEN /\ UNCHANGED <<next, data>>
          /\ last' = Thrown("Node", v, 0, "Error", NodeError)
     ELSE LET stored == Node_freeze(IF v[1] = "object"
                                    THEN <<"object", Len(data) + 1, v[3]>>
                                    ELSE v)
          IN  /\ next' = Append(next, NULL)
              /\ data' = Append(data, stored)
              /\ last' = Returned("Node", v, 0, NodeRef(Len(data) + 1))
  /\ UNCHANGED <<kind, head, tail, size, hist, iter, arrays, other>>

\* a write of k to a property of object o, by strict code (TypeError on a
\* frozen object) or by sloppy code (ignored): the call record and the
\* object afterwards
Assigned(op, n, o, k, strict) ==
  IF o.frozen
  THEN [call |-> IF strict
                 THEN Thrown(op, NUM(k), n, "TypeError",
                             "Cannot assign to read only property")
                 ELSE Returned(op, NUM(k), n, UNDEF),
        obj |-> o]
  ELSE [call |-> Returned(op, NUM(k), n, UNDEF),
        obj |-> [o EXCEPT !.key = k]]

\* `node.data.key = k` by the caller
Object_setKey(n, k, strict) ==
  /\ n \in DOMAIN data
  /\ data[n][1] = "object"
  /\ LET done == Assigned("data.key=", n, data[n][3], k, strict) IN
     /\ data' = [data EXCEPT ![n][3] = done.obj]
     /\ last' = done.call
  /\ UNCHANGED <<kind, head, tail, size, next, hist, iter, arrays, other>>

\* `node.data.inner.key = k` by the caller
Object_setInnerKey(n, k, strict) ==
  /\ n \in DOMAIN data
  /\ data[n][1] = "object"
  /\ LET done == Assigned("data.inner.key=", n, data[n][3].inner, k, strict) IN
     /\ data' = [data EXCEPT ![n][3].inner = done.obj]
     /\ last' = done.call
  /\ UNCHANGED <<kind, head, tail, size, next, hist, iter, arrays, other>>

\* a caller builds nodes around objects and then writes to the objects
NextFreeze ==
  \/ \E v \in {<<"object", 0, ObjectOf(k, j)>> : k \in Keys, j \in Keys}
                \cup {N1, NULLV} : Node_constructor(v)
  \/ \E n \in {1, 2}, k \in Keys, strict \in BOOLEAN : Object_setKey(n, k, strict)
  \/ \E n \in {1, 2}, k \in Keys, strict \in BOOLEAN :
       Object_setInnerKey(n, k, strict)

SpecFreeze == Init /\ [][NextFreeze]_vars

(* --------------------------- two containers --------------------------- *)
\* the chain of the second container, as node identities
OtherChain == Walk(other.head, next, {})

\* toArray() of the second container
OtherArray == [i \in 1..Len(OtherChain) |-> data[OtherChain[i]]]

\* the caller turns to its other container: the fields of the two swap
\* places in the state, no object changes
Turn ==
  /\ kind # "none"
  /\ LET own == LiveOrder(other.head, other.tail, NULL, next)
         NotOwn(n) == n \notin Range(own)
         order == own \o SelectSeq(LiveOrder(head, tail, NULL, next), NotOwn)
         pos(n) == IF n = NULL THEN NULL
                   ELSE CHOOSE i \in 1..Len(order) : order[i] = n
     IN  /\ kind' = other.kind
         /\ head' = pos(other.head)
         /\ tail' = pos(other.tail)
         /\ size' = other.size
         /\ hist' = other.hist
         /\ other' = [kind |-> kind, head |-> pos(head), tail |-> pos(tail),
                      size |-> size, hist |-> hist]
         /\ next' = [i \in 1..Len(order) |-> pos(next[order[i]])]
         /\ data' = [i \in 1..Len(order) |-> data[order[i]]]
  /\ last' = Returned("turn", UNDEF, 0, UNDEF)
  /\ UNCHANGED <<iter, arrays>>

\* a caller builds two containers and operates on either
NextTwo ==
  \/ \E d \in IterValues : Queue_constructor(d)
  \/ IterRoom /\ \E d \in IterData : Queue_push(d)
  \/ Queue_pop
  \/ Queue_clear
  \/ \E d \in IterValues : List_constructor(d)
  \/ IterRoom /\ \E d \in IterData : List_push(d)
  \/ IterRoom /\ \E d \in IterData : List_prepend(d)
  \/ IterRoom /\ \E i \in IterIndices, d \in IterData : List_insert(i, d)
  \/ \E i \in IterIndices : List_remove(i)
  \/ List_clear
  \/ \E d \in IterValues : Stack_constructor(d)
  \/ IterRoom /\ \E d \in IterData : Stack_push(d)
  \/ Stack_pop
  \/ Stack_clear
  \/ Turn

SpecTwo == Init /\ [][NextTwo]_vars

(* ----------------------- the two Queue classes ------------------------ *)
\* A caller holds a Queue with cached size and tail (the constructed
\* container) and a minimal Queue, which keeps _head only and inherits push,
\* size and isEmpty from ALinearStructure, and makes every call on the first
\* and then on the second.  The minimal Queue is the record `other` with its
\* own nodes: mhead is its _head, mnext and mdata the fields of its nodes,
\* asked the call as the first Queue answered it.

\* the fields of the minimal Queue, its nodes numbered in chain order
MinimalQueue(h, nx, dt) ==
  LET order == Walk(h, nx, {})
      pos(n) == IF n = NULL THEN NULL
                ELSE CHOOSE i \in 1..Len(order) : order[i] = n
  IN  [kind |-> "MinimalQueue", head |-> NULL, tail |-> NULL, size |-> 0,
       hist |-> <<>>, asked |-> last,
       mhead |-> pos(h),
       mnext |-> [i \in 1..Len(order) |-> pos(nx[order[i]])],
       mdata |-> [i \in 1..Len(order) |-> dt[order[i]]]]

\* the call made on the first Queue is still to be made on the minimal one
Asked == last.op \in {"Queue", "push", "pop"}

\* `new Queue()` of the minimal class, after that of the first
MinimalQueue_constructor ==
  /\ last.op = "Queue"
  /\ other.kind = "none"
  /\ other' = MinimalQueue(ALinearStructure_constructor(UNDEF), <<>>, <<>>)
  /\ last' = Returned("MinimalQueue", UNDEF, 0, UNDEF)
  /\ UNCHANGED <<kind, head, tail, size, next, data, hist, iter, arrays>>

RECURSIVE LastFrom(_, _)
\* `while (header.next) header = header.next`
LastFrom(header, nx) ==
  IF nx[header] # NULL THEN LastFrom(nx[header], nx) ELSE header

\* a push that links the new node in front of _head
ALinearStructure_push_AtFront(d) ==
  /\ other.kind = "MinimalQueue"
  /\ last.op = "push"
  /\ last.arg = d
  /\ IF NodeRejects(d)
     THEN /\ other' = [other EXCEPT !.asked = last]
          /\ last' = Thrown("ALinearStructure.push", d, 0, "Error", NodeError)
     ELSE LET newElement == Len(other.mnext) + 1 IN
          /\ other' = MinimalQueue(newElement,
                                   Append(other.mnext, other.mhead),
                                   Append(other.mdata, d))
          /\ last' = Returned("ALinearStructure.push", d, 0, UNDEF)
  /\ UNCHANGED <<kind, head, tail, size, next, data, hist, iter, arrays>>

\* ALinearStructure.push on the minimal Queue, with the argument of the push
\* just made on the first
ALinearStructure_push(d) ==
  /\ other.kind = "MinimalQueue"
  /\ last.op = "push"
  /\ last.arg = d
  /\ IF NodeRejects(d)
     THEN /\ other' = [other EXCEPT !.asked = last]
          /\ last' = Thrown("ALinearStructure.push", d, 0, "Error", NodeError)
     ELSE LET newElement == Len(other.mnext) + 1
              nx == Append(other.mnext, NULL)
              dt == Append(other.mdata, d)
          IN  /\ IF other.mhead = NULL
                 THEN other' = MinimalQueue(newElement, nx, dt)
                 ELSE other' = MinimalQueue(
                        other.mhead,
                        [nx EXCEPT ![LastFrom(other.mhead, other.mnext)] =
                                     newElement],
                        dt)
              /\ last' = Returned("ALinearStructure.push", d, 0, UNDEF)
  /\ UNCHANGED <<kind, head, tail, size, next, data, hist, iter, arrays>>

\* pop of the minimal Queue, after the pop on the first
MinimalQueue_pop ==
  /\ other.kind = "MinimalQueue"
  /\ last.op = "pop"
  /\ IF other.mhead = NULL
     THEN /\ other' = [other EXCEPT !.asked = last]
          /\ last' = Thrown("MinimalQueue.pop", UNDEF, 0,
                            "QueueUnderflowError",
                            "Can't dequeue from an empty queue.")
     ELSE /\ other' = MinimalQueue(other.mnext[other.mhead], other.mnext,
                                   other.mdata)
          /\ last' = Returned("MinimalQueue.pop", UNDEF, 0,
                              other.mdata[other.mhead])
  /\ UNCHANGED <<kind, head, tail, size, next, data, hist, iter, arrays>>

RECURSIVE SizeFrom(_, _)
\* the loop of ALinearStructure.size
SizeFrom(header, nx) ==
  IF header = NULL THEN 0 ELSE 1 + SizeFrom(nx[header], nx)

\* ALinearStructure.size of the minimal Queue
ALinearStructure_size == SizeFrom(other.mhead, other.mnext)

\* ALinearStructure.isEmpty of the minimal Queue
ALinearStructure_isEmpty == other.mhead = NULL

\* both queues are constructed empty; every push and pop is made on the
\* first and then on the minimal one
NextRefine ==
  \/ ~Asked /\ Queue_constructor(UNDEF)
  \/ MinimalQueue_constructor
  \/ ~Asked /\ \E d \in Inserted \cup {NAN} : Queue_push(d)
  \/ \E d \in Inserted \cup {NAN} : ALinearStructure_push(d)
  \/ ~Asked /\ Queue_pop
  \/ MinimalQueue_pop

SpecRefine == Init /\ [][NextRefine]_vars

(* ----------------------- insert and then remove ----------------------- *)
\* A caller builds a list from `new List()`, notes what it holds, inserts a
\* value at an index and removes the element at that index.  The note is the
\* record `other`: the index and value chosen, and toArray(), size, head and
\* tail as they were.

\* the caller notes the list and chooses index and value
Observe(index, x) ==
  /\ kind = "List"
  /\ other.kind = "none"
  /\ Room
  /\ index <= size
  /\ other' = [kind |-> "observed", head |-> NULL, tail |-> NULL, size |-> 0,
               hist |-> <<>>, index |-> index, value |-> x,
               seen |-> [elements |-> List_toArray, size |-> size,
                         head |-> head, tail |-> tail]]
  /\ last' = Returned("observe", x, index, UNDEF)
  /\ UNCHANGED <<kind, head, tail, size, next, data, hist, iter, arrays>>

\* while no note is held the list is being built
NextRoundTrip ==
  \/ List_constructor(UNDEF)
  \/ other.kind = "none" /\ \E d \in Inserted : List_push(d)
  \/ other.kind = "none" /\ \E d \in Inserted : List_prepend(d)
  \/ other.kind = "none" /\ \E i \in Indices, d \in Inserted : List_insert(i, d)
  \/ other.kind = "none" /\ \E i \in Indices : List_remove(i)
  \/ other.kind = "none" /\ \E d \in Data : List_removeData(d)
  \/ other.kind = "none" /\ List_clear
  \/ \E i \in 0..MaxSize, x \in IterData : Observe(i, x)
  \/ last.op = "observe" /\ List_insert(other.index, other.value)
  \/ other.kind = "observed" /\ last.op = "insert" /\ List_remove(other.index)

SpecRoundTrip == Init /\ [][NextRoundTrip]_vars

(* ------------------------------ queries ------------------------------- *)
\* ILinearStructure.isEmpty of the constructed container
isEmpty ==
  IF kind = "Stack" THEN Stack_isEmpty
  ELSE IF kind = "Queue" THEN Queue_isEmpty
  ELSE List_isEmpty

\* toArray of the constructed container
toArray ==
  IF kind = "Stack" THEN Stack_toArray
  ELSE IF kind = "Queue" THEN Queue_toArray
  ELSE List_toArray

Constructors == {"Stack", "Queue", "List"}

\* s with x placed at 0-based position i
InsertAt(s, i, x) == SubSeq(s, 1, i) \o <<x>> \o SubSeq(s, i + 1, Len(s))

(* ------------------------------- claims ------------------------------- *)

\* C1: in every state of a constructed Stack, Queue or List the cached size
\* equals the number of nodes reachable from head, and toArray().length
\* equals size.
C1_SizeIsChainLength ==
  kind # "none" => size = Len(Chain) /\ Len(toArray) = size

\* C2: every successful Queue.pop() returns the oldest value that was put in
\* and not yet popped (strict FIFO under any interleaving of push and pop).
C2_QueueFifo ==
  [][(kind = "Queue" /\ last'.op = "pop" /\ last'.err = "")
       => (hist # <<>> /\ last'.val = hist[1] /\ hist' = Tail(hist))]_vars

\* a pop has returned a value that differs from the one now at the front
C2_Witness ==
  /\ kind = "Queue"
  /\ last.op = "pop"
  /\ last.err = ""
  /\ hist # <<>>
  /\ last.val # hist[1]

\* C3: every successful Stack.pop() returns the most recently pushed value
\* that has not yet been popped (strict LIFO under any interleaving).
C3_StackLifo ==
  [][(kind = "Stack" /\ last'.op = "pop" /\ last'.err = "")
       => (hist # <<>> /\ last'.val = hist[Len(hist)]
           /\ hist' = SubSeq(hist, 1, Len(hist) - 1))]_vars

\* a pop has returned a value that differs from the one pushed before it
C3_Witness ==
  /\ kind = "Stack"
  /\ last.op = "pop"
  /\ last.err = ""
  /\ hist # <<>>
  /\ last.val # hist[Len(hist)]

\* C4: in every state of a Queue or List, head is null exactly when tail is
\* null exactly when size is 0; when non-empty, tail is the last node
\* reachable from head and tail.next is null; head = tail when size is 1.
C4_HeadTailSize ==
  kind \in {"Queue", "List"} =>
    /\ (head = NULL) <=> (tail = NULL)
    /\ (tail = NULL) <=> (size = 0)
    /\ head # NULL => (tail = Chain[Len(Chain)] /\ next[tail] = NULL)
    /\ size = 1 => head = tail

\* C5: in every state of a Stack, Queue or List, isEmpty() is true exactly
\* when size is 0, and size is 0 exactly when head is null.
C5_EmptyIffSizeZero ==
  kind # "none" =>
    /\ isEmpty <=> (size = 0)
    /\ (size = 0) <=> (head = NULL)

\* C6: constructing a Stack, Queue or List with a present initial value v,
\* falsy ones included, yields size 1, isEmpty() false, a head node holding v
\* with head.next null, and tail = head for Queue and List.
C6_ConstructWithValue ==
  (last.op \in Constructors /\ last.arg \notin {UNDEF, NULLV}) =>
    /\ last.err = ""
    /\ kind = last.op
    /\ size = 1
    /\ ~isEmpty
    /\ head # NULL
    /\ data[head] = last.arg
    /\ next[head] = NULL
    /\ kind \in {"Queue", "List"} => tail = head

\* C7: constructing a Stack, Queue or List with an absent initial value
\* (undefined or null) does not fail and yields an empty container: size 0,
\* head null, isEmpty() true.
C7_ConstructWithAbsent ==
  (last.op \in Constructors /\ last.arg \in {UNDEF, NULLV}) =>
    /\ last.err = ""
    /\ kind = last.op
    /\ size = 0
    /\ head = NULL
    /\ isEmpty

\* C8: Stack pop(), peek() and top() fail with StackUnderflowError exactly
\* when size is 0; the failed call leaves size 0 and head null; on a
\* non-empty stack each returns the value of the head node.
C8_StackUnderflow ==
  [][(kind = "Stack" /\ last'.op \in {"pop", "peek", "top"}) =>
       /\ (last'.err # "") <=> (size = 0)
       /\ last'.err # "" =>
            (last'.err = "StackUnderflowError" /\ size' = 0 /\ head' = NULL)
       /\ size > 0 => (head # NULL /\ last'.val = data[head])]_vars

\* a pop on an empty stack has failed with StackUnderflowError
C8_Witness ==
  /\ kind = "Stack"
  /\ last.op = "pop"
  /\ last.err = "StackUnderflowError"
  /\ size = 0

\* C9: Queue pop(), peek() and rear() fail with QueueUnderflowError exactly
\* when size is 0; a failed call leaves head, tail and size unchanged; when
\* size > 0, pop and peek return the front value and rear the last pushed.
C9_QueueUnderflow ==
  [][(kind = "Queue" /\ last'.op \in {"pop", "peek", "rear"}) =>
       /\ (last'.err # "") <=> (size = 0)
       /\ last'.err # "" =>
            (last'.err = "QueueUnderflowError"
             /\ head' = head /\ tail' = tail /\ size' = size)
       /\ size > 0 =>
            /\ hist # <<>>
            /\ last'.val = IF last'.op = "rear" THEN hist[Len(hist)]
                           ELSE hist[1]]_vars

\* C10: for every List state and index with 0 <= index <= size, a successful
\* insert(index, x) yields the previous sequence with x at position index,
\* size + 1, and find(index) then returns x.
C10_ListInsert ==
  [][\A i \in Indices, x \in Data :
       (kind = "List" /\ last'.op = "insert" /\ last'.idx = i /\ last'.arg = x
        /\ 0 <= i /\ i <= size /\ ~NodeRejects(x)) =>
         /\ last'.err = ""
         /\ i <= Len(List_toArray)
         /\ List_toArray' = InsertAt(List_toArray, i, x)
         /\ size' = size + 1
         /\ List_findResult(i)'.err = ""
         /\ List_findResult(i)'.val = x]_vars

\* s without the element at 0-based position i
RemoveAt(s, i) == SubSeq(s, 1, i) \o SubSeq(s, i + 2, Len(s))

\* C11: for every List state and index with 0 <= index < size, remove(index)
\* deletes exactly the element at position index, keeps the others in order,
\* decreases size by 1, leaves tail on the new last node, and sets head and
\* tail to null when the list becomes empty.
C11_ListRemove ==
  [][\A i \in Indices :
       (kind = "List" /\ last'.op = "remove" /\ last'.idx = i
        /\ 0 <= i /\ i < size) =>
         /\ last'.err = ""
         /\ i < Len(List_toArray)
         /\ List_toArray' = RemoveAt(List_toArray, i)
         /\ size' = size - 1
         /\ head' # NULL => tail' = Chain'[Len(Chain')]
         /\ head' = NULL => tail' = NULL]_vars

\* C12: in every List state, for every index with 0 <= index < size,
\* find(index) succeeds and returns toArray()[index].
C12_ListFind ==
  kind = "List" =>
    \A i \in Indices :
      (0 <= i /\ i < size) =>
        /\ List_findResult(i).err = ""
        /\ i < Len(List_toArray)
        /\ List_findResult(i).val = List_toArray[i + 1]

\* C13: find(index) and remove(index) with index < 0 or index >= size, and
\* insert(index, v) with index < 0 or index > size, fail with the
\* index-out-of-bounds error and leave the sequence, size, head and tail
\* (and every link) unchanged.
C13_IndexOutOfBounds ==
  [][(/\ kind = "List"
      /\ \/ /\ last'.op \in {"find", "remove"}
            /\ (last'.idx < 0 \/ last'.idx >= size)
         \/ /\ last'.op = "insert"
            /\ (last'.idx < 0 \/ last'.idx > size)) =>
       /\ last'.err = "Error"
       /\ last'.msg = IndexError
       /\ UNCHANGED <<head, tail, size, next, data>>]_vars

\* find(size) on a non-empty list has failed with the index error
C13_Witness ==
  /\ kind = "List"
  /\ last.op = "find"
  /\ size > 0
  /\ last.idx = size
  /\ last.err = "Error"
  /\ last.msg = IndexError

\* 1-based positions of the chain whose node matches x under hasData
Matches(x) == {i \in 1..Len(Chain) : hasData(Chain[i], x)}

Min(S) == CHOOSE m \in S : \A k \in S : m <= k

\* C14: removeData(x) on a List removes exactly one element, the first one
\* matching x under hasData, and returns true; when no element matches it
\* returns false, raises no error and leaves sequence, size, head and tail
\* unchanged.
C14_ListRemoveData ==
  [][\A x \in Data :
       (kind = "List" /\ last'.op = "removeData" /\ last'.arg = x) =>
         /\ last'.err = ""
         /\ IF Matches(x) = {}
            THEN /\ last'.val = BOOL(FALSE)
                 /\ UNCHANGED <<head, tail, size, next, data>>
            ELSE /\ last'.val = BOOL(TRUE)
                 /\ List_toArray' = RemoveAt(List_toArray, Min(Matches(x)) - 1)
                 /\ size' = size - 1]_vars

\* removeData has removed a match that was not the head and left a later
\* duplicate in the list
C14_Witness ==
  /\ kind = "List"
  /\ last.op = "removeData"
  /\ last.val = BOOL(TRUE)
  /\ last.idx >= 1
  /\ List_contains(last.arg)

\* C15: indexOf(x) on a List returns the smallest index whose element matches
\* x under hasData, and -1 when no element matches; contains(x) is true
\* exactly when indexOf(x) is not -1.
C15_ListIndexOf ==
  [][\A x \in Data :
       (kind = "List" /\ last'.arg = x) =>
         /\ last'.op = "indexOf" =>
              last'.val = NUM(IF Matches(x) = {} THEN 0 - 1
                              ELSE Min(Matches(x)) - 1)
         /\ last'.op = "contains" =>
              last'.val = BOOL(List_indexOf(x) # 0 - 1)]_vars

\* indexOf has answered a position past the head for a value that occurs
\* twice in the list
C15_Witness ==
  /\ kind = "List"
  /\ last.op = "indexOf"
  /\ last.val[2] >= 1
  /\ Cardinality(Matches(last.arg)) >= 2

\* C16: size follows the count of successful insertions minus successful
\* removals: a constructor leaves size 1 for a present initial value and 0
\* for an absent one (undefined or null); a successful push, prepend or
\* insert adds 1; a successful pop, remove or removeData returning true
\* subtracts 1; clear resets it to 0; every failed call and every query
\* leaves it alone; size is never negative.
C16_SizeCounts ==
  [][/\ size' >= 0
     /\ last'.err # "" => size' = size
     /\ last'.err = "" =>
          CASE last'.op \in Constructors ->
                 size' = IF last'.arg \in {UNDEF, NULLV} THEN 0 ELSE 1
            [] last'.op \in {"push", "prepend", "insert"} -> size' = size + 1
            [] last'.op \in {"pop", "remove"} -> size' = size - 1
            [] last'.op = "removeData" ->
                 size' = IF last'.val = BOOL(TRUE) THEN size - 1 ELSE size
            [] last'.op = "clear" -> size' = 0
            [] OTHER -> size' = size]_vars

\* C20: clear() never raises and, from every reachable state, leaves the
\* container with size 0, head null, tail null and no node, which is the
\* state a constructor without argument produces; on an already-empty
\* container it changes nothing.
C20_Clear ==
  [][last'.op = "clear" =>
       /\ last'.err = ""
       /\ size' = 0
       /\ head' = NULL
       /\ kind \in {"Queue", "List"} => tail' = NULL
       /\ <<head', tail', size', next', data'>> = <<NULL, NULL, 0, << >>, << >>>>
       /\ isEmpty' /\ toArray' = << >>
       /\ isEmpty => UNCHANGED <<head, tail, size, next, data>>]_vars

\* a Queue has been cleared
C20_Witness ==
  /\ kind = "Queue"
  /\ last.op = "clear"
  /\ size = 0
  /\ tail = NULL

\* a step of a running generator has been taken
Stepped == iter.pc \in {"start", "yielded"} /\ last'.op = "next"

\* C17 (as stated): an iteration does not observe mutations made after the
\* iterator was obtained: every step yields the next value of what toArray()
\* was at that time, and the iteration ends exactly when those values are
\* used up.
C17_IterationSnapshot ==
  [][Stepped =>
       IF last'.val = DONE
       THEN iter.rest = <<>>
       ELSE iter.rest # <<>> /\ last'.val = Head(iter.rest)]_vars

\* place of node n in the chain from head, 0 when n is not in it
ChainPos(n) ==
  IF \E i \in 1..Len(Chain) : Chain[i] = n
  THEN CHOOSE i \in 1..Len(Chain) : Chain[i] = n
  ELSE 0

\* C17 (amended): an iteration reads the container at each step, not when
\* the iterator is obtained. The first step yields the element that is first
\* at that moment, or ends if the container is then empty. Each later step
\* yields the element that follows, at that moment, the node yielded by the
\* step before, or ends if nothing follows it; when that node has been
\* removed meanwhile, the step follows the link the removed node still has.
\* Mutations made after the iterator was obtained are therefore observed.
C17_IterationLive ==
  [][Stepped =>
       LET p == IF iter.pc = "start" THEN 0 ELSE ChainPos(iter.current) IN
       IF iter.pc = "yielded" /\ p = 0
       THEN last'.val = IF next[iter.current] = NULL THEN DONE
                        ELSE data[next[iter.current]]
       ELSE last'.val = IF p = Len(Elements) THEN DONE
                        ELSE Elements[p + 1]]_vars

\* an iteration has ended without yielding every value the container held
\* when the iterator was obtained: it observed a later removal
C17_Witness ==
  /\ last.op = "next"
  /\ iter.pc = "done"
  /\ iter.rest # <<>>

Reverse(s) == [i \in 1..Len(s) |-> s[Len(s) + 1 - i]]

\* C18: with no mutation in between, a fresh iteration yields, value by
\* value, the sequence toArray() returns, and then ends; that sequence is in
\* the natural order: most recently pushed first for a Stack, insertion
\* order for a Queue, head to tail (which is how toArray is defined) for a
\* List. A new iteration can be started at any time, with the same result.
C18_FreshIteration ==
  [][(Stepped /\ ~iter.dirty) =>
       /\ IF last'.val = DONE
          THEN iter.rest = <<>>
          ELSE iter.rest # <<>> /\ last'.val = Head(iter.rest)
       /\ Len(iter.rest) <= Len(toArray)
       /\ iter.rest = SubSeq(toArray, Len(toArray) - Len(iter.rest) + 1,
                             Len(toArray))
       /\ iter.pc = "start" => iter.rest = toArray
       /\ kind = "Stack" => toArray = Reverse(hist)
       /\ kind = "Queue" => toArray = hist
       /\ UNCHANGED <<head, tail, size, toArray>>]_vars

\* an undisturbed iteration over two different values has yielded both and
\* ended
C18_Witness ==
  /\ last.op = "next"
  /\ last.val = DONE
  /\ iter.pc = "done"
  /\ ~iter.dirty
  /\ iter.rest = <<>>
  /\ Len(toArray) = 2
  /\ toArray[1] # toArray[2]

\* the elements of the array the caller's variable v holds
Held(v) == arrays.elems[arrays.ref[v]]

\* C19: toArray() returns a fresh array on every call, holding the
\* container's elements; mutating a returned array changes neither the
\* container (elements, size, fields) nor the array any other toArray() call
\* returned, and later toArray() calls still return the container's
\* elements.
C19_FreshArray ==
  [][\A v \in Slots :
       LET NotTouched(w) ==
             (w # v /\ arrays.ref[w] # NULL) =>
               /\ arrays'.ref[w] = arrays.ref[w]
               /\ Held(w)' = Held(w)
       IN
       /\ (last'.op = "toArray" /\ last'.idx = v) =>
            /\ last'.val = <<"array", arrays'.ref[v]>>
            /\ arrays'.ref[v] # arrays.ref[3 - v]
            /\ arrays'.ref[v] # arrays'.ref[3 - v]
            /\ Held(v)' = toArray
            /\ NotTouched(3 - v)
            /\ UNCHANGED <<head, tail, size, next, data, toArray>>
       /\ (last'.op \in {"Array.push", "Array.pop"} /\ last'.idx = v) =>
            /\ NotTouched(3 - v)
            /\ UNCHANGED <<head, tail, size, next, data, toArray>>]_vars

\* the caller holds two arrays of a non-empty container and has changed
\* the first one by a push
C19_Witness ==
  /\ last.op = "Array.push"
  /\ last.idx = 1
  /\ arrays.ref[1] # NULL
  /\ arrays.ref[2] # NULL
  /\ toArray # <<>>
  /\ Held(2) = toArray
  /\ Held(1) = Append(toArray, N999)

\* the read-only operations
ReadOps ==
  {"size", "isEmpty", "peek", "top", "rear", "find", "indexOf", "contains",
   "toArray", "toString", "toJSON"}

\* C21: the read-only operations (size, isEmpty, peek, top, rear, find,
\* indexOf, contains, toArray, toString, toJSON), whether they return or
\* throw, leave head, tail, size, every next link and every node's data
\* unchanged.
C21_ReadOnly ==
  [][last'.op \in ReadOps =>
       UNCHANGED <<head, tail, size, next, data>>]_vars

\* a peek has returned the front of a queue of two elements, which is still
\* there
C21_Witness ==
  /\ kind = "Queue"
  /\ last.op = "peek"
  /\ last.err = ""
  /\ Len(Chain) = 2
  /\ last.val = data[head]

\* the name of the constructed container, as its characters
KindName ==
  IF kind = "Stack" THEN <<"S", "t", "a", "c", "k">>
  ELSE IF kind = "Queue" THEN <<"Q", "u", "e", "u", "e">>
  ELSE <<"L", "i", "s", "t">>

\* C30 (as stated): toString() of a Stack, Queue or List is exactly
\* "<Kind>(<size>)[<v1>, <v2>, ...]": the bracketed elements follow the
\* closing parenthesis immediately, "[]" when there are none.
C30_ToStringFormat ==
  last.op = "toString" =>
    last.val = <<"chars", KindName \o <<"(">> \o Digits(size) \o <<")", "[">>
                          \o Join(toArray) \o <<"]">> >>

\* C30 (amended): toString() of a Queue or List is "<Kind>(<size>)[...]";
\* toString() of a Stack is "Stack(<size>) [...]", with one space between
\* the closing parenthesis and the bracket; the elements are in iteration
\* order, separated by ", ".
C30_ToStringFormats ==
  last.op = "toString" =>
    last.val = <<"chars", KindName \o <<"(">> \o Digits(size) \o <<")">>
                          \o (IF kind = "Stack" THEN <<" ">> ELSE <<>>)
                          \o <<"[">> \o Join(toArray) \o <<"]">> >>

\* toString() of a Stack of two elements has returned
C30_Witness ==
  /\ kind = "Stack"
  /\ last.op = "toString"
  /\ Len(toArray) = 2
  /\ last.val[2][9] = " "

\* C22: push, prepend and insert called with null or undefined fail, with
\* the error of the node constructor whenever the index is one insert
\* accepts, and leave size, head, tail and the chain unchanged; no node ever
\* holds null or undefined.
C22_AbsentRejected ==
  /\ [](\A n \in DOMAIN data : data[n] \notin Absent)
  /\ [][(last'.op \in {"push", "prepend", "insert"} /\ last'.arg \in Absent)
          => /\ last'.err # ""
             /\ UNCHANGED <<head, tail, size, next, data>>
             /\ (last'.idx \in 0..size
                   => last'.err = "Error" /\ last'.msg = NodeError)]_vars

\* insert(1, undefined) on a List of two elements has been rejected by the
\* node constructor
C22_Witness ==
  /\ kind = "List"
  /\ last.op = "insert"
  /\ last.arg = UNDEF
  /\ last.idx = 1
  /\ last.msg = NodeError
  /\ Len(Chain) = 2

\* C23: setting the next of a SingleNode to the node itself fails with the
\* circular-reference error and leaves the link as it was; setting it to
\* any other node or to null succeeds and the link is then that node or
\* null. No other link changes.
C23_SetNext ==
  [][last'.op = "next=" =>
       \A n \in Nodes, m \in Nodes \cup {NULL} :
         (last'.idx = n /\ last'.arg = NodeRef(m)) =>
           /\ (m = n => /\ last'.err = "Error"
                        /\ last'.msg = CircularError
                        /\ next' = next)
           /\ (m # n => /\ last'.err = ""
                        /\ next'[n] = m
                        /\ \A k \in DOMAIN next \ {n} : next'[k] = next[k])]_vars

\* a node that has a successor was set as its own next: the call failed and
\* the successor is still there
C23_Witness ==
  /\ last.op = "next="
  /\ last.arg = NodeRef(last.idx)
  /\ last.err = "Error"
  /\ next[last.idx] # NULL

\* C24: in every state of a Stack, Queue or List the chain from head has no
\* cycle: following next from head visits each node at most once and
\* reaches null.
C24_Acyclic ==
  head # NULL => next[Chain[Len(Chain)]] = NULL

\* the operations that construct or mutate a container
Mutators ==
  Constructors \cup
    {"push", "pop", "prepend", "insert", "remove", "removeData", "clear"}

\* C25: head, tail, size and the links of the nodes change only in a call
\* of a mutating method of the container (or of its constructor): nothing
\* the container hands out lets a caller rewrite a link.
C25_OnlyMethodsMutate ==
  [][(<<head, tail, size, next>>' # <<head, tail, size, next>>)
       => last'.op \in Mutators]_vars

\* C26: the chains of two containers have no node in common, and a call on
\* one container leaves the other's fields, links and elements unchanged,
\* also when both hold the same value.
C26_Disjoint ==
  /\ [](Range(Chain) \cap Range(OtherChain) = {})
  /\ [][last'.op # "turn" =>
          /\ other'.size = other.size
          /\ (other'.head = NULL) <=> (other.head = NULL)
          /\ (other'.tail = NULL) <=> (other.tail = NULL)
          /\ OtherArray' = OtherArray]_vars

\* a value was pushed to a container while the other holds the same value
\* at its head
C26_Witness ==
  /\ last.op = "push"
  /\ last.err = ""
  /\ other.head # NULL
  /\ other.size = 2
  /\ head # NULL
  /\ data[head] = data[other.head]

\* the capability dispatch of the spec: the value's own equality when it is
\* a Comparable, else strict equality, which holds between values of the
\* same type that are the same primitive or the same object
Equal(a, b) ==
  IF a[1] = "comparable" THEN b[1] = "comparable" /\ a[2] = b[2]
  ELSE /\ a[1] = b[1]
       /\ ~IsNaN(a) /\ ~IsNaN(b)
       /\ a[2] = b[2]

\* C27: node.hasData(v) is true exactly when the stored value equals v by
\* the value's Comparable equality if it has one, else by strict equality
\* (two distinct plain objects never match, whatever they hold);
\* node.equals(other) is hasData(other.data).
C27_HasData ==
  /\ last.op = "hasData" =>
       last.val = BOOL(Equal(data[last.idx], last.arg))
  /\ last.op = "equals" =>
       last.val = BOOL(Equal(data[last.idx], data[last.arg[2]]))

\* hasData was asked, of a node holding a plain object, for another object
\* holding the same, and answered false
C27_Witness ==
  /\ last.op = "hasData"
  /\ data[last.idx][1] = "object"
  /\ last.arg[1] = "object"
  /\ last.arg[3] = data[last.idx][3]
  /\ last.arg[2] # data[last.idx][2]
  /\ last.val = BOOL(FALSE)

\* C28: isGreaterThan and isLessThan answer with the value's own Comparable
\* method when it has one, else with the natural order when both values are
\* numbers or both are strings, and fail with the comparison-unsupported
\* error for every other pairing.
C28_Ordering ==
  last.op \in {"isGreaterThan", "isLessThan"} =>
    LET a == data[last.idx]
        b == data[last.arg[2]]
        Ordered(x, y) ==
          /\ ~IsNaN(a) /\ ~IsNaN(b)
          /\ IF last.op = "isLessThan" THEN x < y ELSE x > y
    IN  IF a[1] = "comparable"
        THEN /\ last.err = ""
             /\ last.val = BOOL(b[1] = "comparable" /\ Ordered(a[2], b[2]))
        ELSE IF a[1] \in {"number", "string"} /\ b[1] = a[1]
        THEN /\ last.err = ""
             /\ last.val = BOOL(Ordered(a[2], b[2]))
        ELSE /\ last.err = "Error"
             /\ last.msg = CompareError

\* isLessThan between two strings has answered true
C28_Witness ==
  /\ last.op = "isLessThan"
  /\ data[last.idx][1] = "string"
  /\ data[last.arg[2]][1] = "string"
  /\ last.val = BOOL(TRUE)

C31_ToJSON ==
  last.op = "toJSON" =>
    LET json == last.val[2] IN
    /\ {"size", "data"} \subseteq DOMAIN json
    /\ json.data = toArray
    /\ json.size = Len(json.data)
    /\ kind = "Stack" =>
         /\ {"type", "isEmpty"} \subseteq DOMAIN json
         /\ json.isEmpty <=> (json.size = 0)

C34_DeepFrozen ==
  [][last'.op \in {"data.key=", "data.inner.key="} => data' = data]_vars

\* what clone() does to the nodes: a node that was not there holds the
\* value of node n and has no next, and every node that was there keeps its
\* value and its link
Cloned(n, c) ==
  /\ c \notin DOMAIN data
  /\ c \in DOMAIN data'
  /\ data'[c] = data[n]
  /\ next'[c] = NULL
  /\ \A k \in DOMAIN data : data'[k] = data[k] /\ next'[k] = next[k]

\* C35 (as stated): clone() returns a new, distinct node with the same value
\* and no link, leaves the original as it was, and the clone equals the
\* original under equals().
C35_Clone ==
  [][\A n \in {1, 2}, c \in Nodes :
       (last'.op = "clone" /\ last'.idx = n /\ last'.val = NodeRef(c))
         => (Cloned(n, c) /\ equals(c, n)')]_vars

\* C35 (amended): clone() returns a new, distinct node with the same value
\* and no link and leaves the original as it was; the clone equals the
\* original under equals() exactly when the value matches itself under
\* hasData, which every value but NaN does.
C35_CloneOfReflexive ==
  [][\A n \in {1, 2}, c \in Nodes :
       (last'.op = "clone" /\ last'.idx = n /\ last'.val = NodeRef(c))
         => /\ Cloned(n, c)
            /\ equals(c, n)' <=> hasData(n, data[n])
            /\ hasData(n, data[n]) <=> ~IsNaN(data[n])]_vars

\* a node that has a next was cloned: the clone has none and the original
\* still has its own
C35_Witness ==
  /\ last.op = "clone"
  /\ next[last.idx] # NULL
  /\ next[last.val[2]] = NULL
  /\ data[last.val[2]] = data[last.idx]

\* both hold numbers, or both hold strings
SamePrimitive(a, b) == a[1] \in {"number", "string"} /\ b[1] = a[1]

\* how many of a.equals(b), a.isGreaterThan(b), a.isLessThan(b) are true
HowManyTrue(a, b) ==
  (IF equals(a, b) THEN 1 ELSE 0)
    + (IF isGreaterThan(a, b).val = BOOL(TRUE) THEN 1 ELSE 0)
    + (IF isLessThan(a, b).val = BOOL(TRUE) THEN 1 ELSE 0)

\* C38 (as stated): for two nodes both holding numbers, or both holding
\* strings, a.isGreaterThan(b) equals b.isLessThan(a), and exactly one of
\* a.equals(b), a.isGreaterThan(b), a.isLessThan(b) is true.
C38_Trichotomy ==
  \A a \in {1, 2}, b \in {1, 2} :
    SamePrimitive(data[a], data[b]) =>
      /\ isGreaterThan(a, b).val = isLessThan(b, a).val
      /\ HowManyTrue(a, b) = 1

\* C38 (amended): for two nodes both holding numbers, or both holding
\* strings, a.isGreaterThan(b) equals b.isLessThan(a); exactly one of
\* a.equals(b), a.isGreaterThan(b), a.isLessThan(b) is true unless one of
\* the numbers is NaN, and then none is.
C38_TrichotomyButNaN ==
  \A a \in {1, 2}, b \in {1, 2} :
    SamePrimitive(data[a], data[b]) =>
      /\ isGreaterThan(a, b).err = "" /\ isLessThan(b, a).err = ""
      /\ isGreaterThan(a, b).val = isLessThan(b, a).val
      /\ HowManyTrue(a, b) =
           IF IsNaN(data[a]) \/ IsNaN(data[b]) THEN 0 ELSE 1

\* a node holding NaN was compared with a node holding a number and the
\* answer was false
C38_Witness ==
  /\ last.op = "isGreaterThan"
  /\ IsNaN(data[last.idx])
  /\ data[last.arg[2]] = N0
  /\ last.val = BOOL(FALSE)
  /\ ~equals(last.idx, last.arg[2])

\* C36: every operation of a Stack, Queue or List terminates: a walk along
\* next from head reaches null after at most size steps.
C36_WalkEnds ==
  kind \in Constructors => \E k \in 0..size : Advance(head, k, next) = NULL

\* C37: from two empty queues, after every push and pop made on both the
\* Queue with cached size and tail and the minimal Queue, both have returned
\* the same value or both have thrown (QueueUnderflowError on a pop), and
\* both report the same size and the same isEmpty().
C37_SameAnswers ==
  last.op \in {"MinimalQueue", "ALinearStructure.push", "MinimalQueue.pop"} =>
    /\ last.err = other.asked.err
    /\ last.val = other.asked.val
    /\ last.op = "MinimalQueue.pop" =>
         (last.err = "QueueUnderflowError" <=> other.asked.err # "")
    /\ NUM(size) = NUM(ALinearStructure_size)
    /\ BOOL(Queue_isEmpty) = BOOL(ALinearStructure_isEmpty)

\* both queues have returned the first of two values pushed and still hold
\* the second
C37_Witness ==
  /\ last.op = "MinimalQueue.pop"
  /\ last.val = N1
  /\ other.asked.val = N1
  /\ other.mdata = <<N0>>
  /\ Queue_toArray = <<N0>>
  /\ size = 1

\* C39: on a List built from an empty list, insert(i, x) with 0 <= i <= size
\* and x present succeeds and puts x at position i, and remove(i) right
\* after it succeeds and restores the element sequence, the size, and head
\* and tail, which are the same first and last nodes as before.
C39_InsertRemove ==
  /\ (other.kind = "observed" /\ last.op = "insert") =>
       /\ last.err = ""
       /\ List_toArray = InsertAt(other.seen.elements, other.index, other.value)
       /\ size = other.seen.size + 1
  /\ (other.kind = "observed" /\ last.op = "remove") =>
       /\ last.err = ""
       /\ List_toArray = other.seen.elements
       /\ size = other.seen.size
       /\ head = other.seen.head
       /\ tail = other.seen.tail
       /\ head = (IF Chain = <<>> THEN NULL ELSE Chain[1])
       /\ tail = (IF Chain = <<>> THEN NULL ELSE Chain[Len(Chain)])

\* a value was inserted at the end of a list of two and removed again: tail
\* is the second node as before
C39_Witness ==
  /\ other.kind = "observed"
  /\ last.op = "remove"
  /\ other.index = 2
  /\ other.seen.elements = <<N0, N1>>
  /\ List_toArray = <<N0, N1>>
  /\ tail = 2
  /\ next[tail] = NULL

====
